---- MODULE Spec2Model ----
(***************************************************************************)
(* Model of the incremental build script .src/build.ts of                  *)
(* json-schema-typed: draft discovery and sorting, the per-draft pipeline  *)
(* gated by the checksum ledger, the ledger write, the selection of the    *)
(* "latest" draft and the aggregate output files.                          *)
(*                                                                         *)
(* Strings the code inspects character by character (draft identifiers)    *)
(* are sequences of one-character strings.  A run of the script is the     *)
(* sequence of actions from StartRun to ExitRun; between runs the draft    *)
(* definition files may be edited.                                         *)
(***************************************************************************)
EXTENDS Integers, Sequences, FiniteSets

\* ---------------------------------------------------------------- bounds

\* Largest number of draft directories present on disk.
MaxDrafts == 2

\* Largest number of bytes of a hash output.
MaxHashBytes == 2

\* ------------------------------------------------------- draft identifiers

Id7 == <<"7">>
Id2019 == <<"2", "0", "1", "9", "-", "0", "9">>
IdDraft7 == <<"d", "r", "a", "f", "t", "7">>
\* A draft that was removed from the repository; its ledger entry may remain.
IdRemoved == <<"4">>

\* The directory names that may exist under .src/draft/.
AllIds == {Id7, Id2019, IdDraft7}

\* The content digests a definition file may have.
Digests == {"h1", "h2"}

\* ------------------------------------------------------------ pure helpers

Digits == <<"0", "1", "2", "3", "4", "5", "6", "7", "8", "9">>

IsDigit(c) == \E k \in 1..Len(Digits) : Digits[k] = c

DigitVal(c) == (CHOOSE k \in 1..Len(Digits) : Digits[k] = c) - 1

\* Collation order of the characters used in identifiers and ledger keys:
\* punctuation before digits before letters.
Collation ==
  <<"_", "-", ".", "/", "0", "1", "2", "3", "4", "5", "6", "7", "8", "9",
    "a", "c", "d", "e", "f", "i", "n", "o", "r", "s", "t">>

Rank(c) == CHOOSE k \in 1..Len(Collation) : Collation[k] = c

\* a.localeCompare(b): -1, 0 or 1.
RECURSIVE LocaleCompare(_, _)
LocaleCompare(a, b) ==
  IF a = <<>> /\ b = <<>> THEN 0
  ELSE IF a = <<>> THEN -1
  ELSE IF b = <<>> THEN 1
  ELSE IF Rank(Head(a)) < Rank(Head(b)) THEN -1
  ELSE IF Rank(Head(a)) > Rank(Head(b)) THEN 1
  ELSE LocaleCompare(Tail(a), Tail(b))

\* The sort with the comparator's operands exchanged.
RECURSIVE SortDraftsDescending(_)
SortDraftsDescending(S) ==
  IF S = {} THEN <<>>
  ELSE LET m == CHOOSE x \in S : \A y \in S : LocaleCompare(y, x) <= 0
       IN <<m>> \o SortDraftsDescending(S \ {m})

\* drafts.sort((a, b) => a.localeCompare(b)) applied to the directory names.
RECURSIVE SortDrafts(_)
SortDrafts(S) ==
  IF S = {} THEN <<>>
  ELSE LET m == CHOOSE x \in S : \A y \in S : LocaleCompare(x, y) <= 0
       IN <<m>> \o SortDrafts(S \ {m})

\* draftId.split("-")[0]
RECURSIVE FirstSegment(_)
FirstSegment(s) ==
  IF s = <<>> \/ Head(s) = "-" THEN <<>>
  ELSE <<Head(s)>> \o FirstSegment(Tail(s))

NaN == -1

RECURSIVE ParseDigits(_, _)
ParseDigits(s, acc) ==
  IF s = <<>> \/ ~IsDigit(Head(s)) THEN acc
  ELSE ParseDigits(Tail(s), acc * 10 + DigitVal(Head(s)))

\* parseInt(s, 10): the value of the leading run of digits, NaN without one.
ParseInt(s) ==
  IF s = <<>> \/ ~IsDigit(Head(s)) THEN NaN ELSE ParseDigits(s, 0)

\* Number.isInteger(parseInt(draftId.split("-")[0], 10))
HasNumericPrefix(id) == ParseInt(FirstSegment(id)) # NaN

NumericPrefix(id) == ParseInt(FirstSegment(id))

\* The filter keeping every draft.
RECURSIVE FilterNone(_)
FilterNone(ds) ==
  IF ds = <<>> THEN <<>> ELSE <<Head(ds)>> \o FilterNone(Tail(ds))

\* [...drafts].filter(...)
RECURSIVE FilterNumeric(_)
FilterNumeric(ds) ==
  IF ds = <<>> THEN <<>>
  ELSE IF HasNumericPrefix(Head(ds)) THEN <<Head(ds)>> \o FilterNumeric(Tail(ds))
  ELSE FilterNumeric(Tail(ds))

Undefined == <<"undefined">>

\* The last draft of the sorted array, whatever its prefix.
LatestOfAny(ds) == IF ds = <<>> THEN Undefined ELSE ds[Len(ds)]

\* [...drafts].filter(...).pop()
LatestOf(ds) ==
  LET f == FilterNumeric(ds)
  IN IF f = <<>> THEN Undefined ELSE f[Len(f)]

\* path.relative(CWD, draftDefFilename).split(path.sep).join("/")
PathOf(id) == <<".src", "draft", id, "definition.ts">>

\* The characters of a ledger key, ".src/draft/<id>/definition.ts".
PathChars(key) ==
  <<".", "s", "r", "c", "/", "d", "r", "a", "f", "t", "/">> \o key[3]
    \o <<"/", "d", "e", "f", "i", "n", "i", "t", "i", "o", "n", ".", "t", "s">>

\* aKey.localeCompare(bKey)
KeyCompare(aKey, bKey) == LocaleCompare(PathChars(aKey), PathChars(bKey))

RECURSIVE SortKeySet(_)
SortKeySet(S) ==
  IF S = {} THEN <<>>
  ELSE LET m == CHOOSE x \in S : \A y \in S : KeyCompare(x, y) <= 0
       IN <<m>> \o SortKeySet(S \ {m})

\* The entries left in the order the object holds them.
SortEntriesNot(keys) == keys

\* Object.entries(checksums).sort(([aKey], [bKey]) => aKey.localeCompare(bKey)),
\* by key: the values travel with their keys.
SortEntries(keys) == SortKeySet({keys[k] : k \in 1..Len(keys)})

\* The property order of the object after checksums[key] = ...: a new key
\* goes last, an existing key keeps its place.
AppendKey(keys, key) ==
  IF \E k \in 1..Len(keys) : keys[k] = key THEN keys ELSE Append(keys, key)

\* checksums[key], undefined for a missing key.
Lookup(ledger, key) ==
  IF key \in DOMAIN ledger THEN ledger[key] ELSE "undefined"

\* An assignment that rebuilds the ledger from the one entry.
AssignFresh(ledger, key, digest) == [k \in {key} |-> digest]

\* checksums[key] = digest
Assign(ledger, key, digest) ==
  [k \in DOMAIN ledger \cup {key} |-> IF k = key THEN digest ELSE ledger[k]]

\* The condition of the "skip" branch, with the force flag ignored.
SkipDraftIgnoringForce(ledger, key, digest, forceRefresh) ==
  digest = Lookup(ledger, key)

\* The condition of the "skip" branch, with the comparison inverted.
SkipDraftInverted(ledger, key, digest, forceRefresh) ==
  digest # Lookup(ledger, key) /\ forceRefresh = FALSE

\* The condition of the "skip" branch.
SkipDraft(ledger, key, digest, forceRefresh) ==
  digest = Lookup(ledger, key) /\ forceRefresh = FALSE

\* The two marker lines put in front of a generated module.
Banner ==
  << <<"// @generated">>,
     <<"// This code is automatically generated. Manual editing is not recommended.">> >>

\* deno fmt on a written file: comment and code lines stay, a blank line
\* that follows a blank line goes.
RECURSIVE DenoFmt(_)
DenoFmt(lines) ==
  IF Len(lines) < 2 THEN lines
  ELSE IF lines[1] = <<"">> /\ lines[2] = <<"">> THEN DenoFmt(Tail(lines))
  ELSE <<lines[1]>> \o DenoFmt(Tail(lines))

\* draft_<id>.ts as written and formatted: the marker, an empty line and the
\* expanded template.
DraftModule(id) ==
  <<<<"draft_", id, ".ts">>,
    DenoFmt(Banner \o << <<"">>, <<"modCode", id>> >>)>>

\* draft_latest.ts: the one re-export line.
AliasModule(latest) ==
  <<<<"draft_", <<"l", "a", "t", "e", "s", "t">>, ".ts">>,
    << <<"export * from \"./draft_", latest, ".ts\";">> >> >>

\* version.ts of the deno directory.
VersionModule ==
  <<<<"version", <<>>, ".ts">>,
    << <<"export const VERSION = \"", "VERSION", "\";">> >> >>

\* The source module a step after the loop writes, if it writes one.
SourceWritten(file, latest) ==
  IF file = "draft_latest.ts" THEN {AliasModule(latest)}
  ELSE IF file = "version.ts" THEN {VersionModule}
  ELSE {}

\* draft.replaceAll("_", "-")
ReplaceUnderscores(s) == [k \in 1..Len(s) |-> IF s[k] = "_" THEN "-" ELSE s[k]]

\* $copyright.year of the definition of a draft.
YearOf(id) ==
  IF id = Id2019 THEN 2019 ELSE 2018

\* licenseCopyrights.sort(...): by year, then by draft.localeCompare.
RECURSIVE SortCopyrights(_)
SortCopyrights(S) ==
  IF S = {} THEN <<>>
  ELSE LET m == CHOOSE x \in S : \A y \in S :
                  \/ YearOf(x) < YearOf(y)
                  \/ YearOf(x) = YearOf(y) /\ LocaleCompare(x, y) <= 0
       IN <<m>> \o SortCopyrights(S \ {m})

\* The text put in place of {COPYRIGHT}: one line per copyright record.
LicenseText(copyrights) ==
  LET sorted == SortCopyrights({copyrights[k] : k \in 1..Len(copyrights)})
  IN [k \in 1..Len(sorted) |-> <<YearOf(sorted[k]), "draft-", sorted[k]>>]

\* The values put in place of the placeholders of the README templates.
ReadmeText(ds, latest) ==
  [total      |-> Len(ds),
   nodeLatest |-> ReplaceUnderscores(latest),
   nodeList   |-> [k \in 1..Len(ds) |-> <<"draft-", ReplaceUnderscores(ds[k])>>],
   denoList   |-> [k \in 1..Len(ds) |-> <<"draft_", ds[k], ".ts">>],
   latest     |-> latest]

ExportKey(id) == <<"./draft-", ReplaceUnderscores(id)>>

\* packageJson.exports: "." and one entry per draft, a later one replacing an
\* earlier one of the same key.
PackageExports(ds, latest) ==
  [key \in {<<".">>} \cup {ExportKey(ds[k]) : k \in 1..Len(ds)} |->
     IF key = <<".">> THEN <<"./draft_", latest, ".js">>
     ELSE LET last == CHOOSE k \in 1..Len(ds) :
                        /\ ExportKey(ds[k]) = key
                        /\ \A j \in k + 1..Len(ds) : ExportKey(ds[j]) # key
          IN <<"./draft_", ds[last], ".js">>]

\* What a step after the loop writes into its file.
FileText(file, ds, copyrights, latest) ==
  IF file = "README.md" THEN ReadmeText(ds, latest)
  ELSE IF file = "LICENSE.md" THEN LicenseText(copyrights)
  ELSE IF file = "package.json" THEN PackageExports(ds, latest)
  ELSE IF file = "draft_latest.ts" THEN AliasModule(latest)
  ELSE VersionModule

\* ------------------------------------------------------------- fileChecksum

\* Values of the bytes of a hash output: below and above 16, and the extremes.
ByteSamples == {0, 1, 16, 17, 171, 255}

\* The hash outputs considered: Uint8Array contents of 1 to MaxHashBytes bytes.
HashOutputs ==
  UNION {[1..n -> ByteSamples] : n \in 1..MaxHashBytes}

HexDigits ==
  <<"0", "1", "2", "3", "4", "5", "6", "7", "8", "9",
    "a", "b", "c", "d", "e", "f">>

\* byte.toString(16): the base-16 digits, without leading zeros.
RECURSIVE ToString16(_)
ToString16(byte) ==
  IF byte < 16 THEN <<HexDigits[byte + 1]>>
  ELSE ToString16(byte \div 16) \o <<HexDigits[(byte % 16) + 1]>>

\* The string left as it is.
PadStartNone(str, targetLength, padString) == str

\* str.padStart(targetLength, padString) for a one-character padString.
RECURSIVE PadStart(_, _, _)
PadStart(str, targetLength, padString) ==
  IF Len(str) >= targetLength THEN str
  ELSE PadStart(<<padString>> \o str, targetLength, padString)

\* parts.join('')
RECURSIVE Join(_)
Join(parts) ==
  IF parts = <<>> THEN <<>> ELSE Head(parts) \o Join(Tail(parts))

\* hashArray.map(byte => byte.toString(16).padStart(2, '0')).join('')
HashHex(hashArray) ==
  Join([k \in 1..Len(hashArray) |-> PadStart(ToString16(hashArray[k]), 2, "0")])

\* No digest is being computed.
NoHash ==
  [at |-> "none", a |-> <<>>, b |-> <<>>, hexA |-> <<>>, hexB |-> <<>>,
   same |-> FALSE]

\* -------------------------------------------------------------------- state

VARIABLES
  defs,              \* disk: draft directory name -> digest of its definition.ts
  ledgerFile,        \* disk: content of .src/checksums.json (path -> digest)
  pc,                \* position of the script
  force,             \* FORCE_REFRESH
  drafts,            \* the sorted array of draft identifiers
  idx,               \* position of the loop over drafts (1-based)
  checksums,         \* the imported, in-memory ledger
  licenseCopyrights, \* drafts whose copyright record was pushed
  latestDraft,       \* latestDraft
  status,            \* per draft: "none", "skipped", or how far its pipeline got
  failure,           \* the step that threw in the current run, or "none"
  reported,          \* drafts for which the compiler reported a problem
  draftWrites,       \* per-draft files written in the current run
  runWrites,         \* other files written in the current run
  fileAtStart,       \* content of checksums.json when the current run started
  checksumsKeys,     \* property order of the in-memory ledger
  ledgerFileKeys,    \* order of the keys in checksums.json
  sources,           \* source modules written to the deno directory in the run
  prevDone,          \* the previous run succeeded and nothing was edited since
  prevCompleted,     \* <<draft, digest was new>>: drafts the previous run
                     \* regenerated before it failed; kept while they and
                     \* the failed one are unedited
  ledgerWrites,      \* number of writes of checksums.json in the run
  written,           \* file -> content of the aggregate files written in the run
  hash,              \* two hash outputs, their digest strings, the comparison
  prevFailed         \* drafts whose pipeline failed in the previous run, not
                     \* edited since

vars ==
  <<defs, ledgerFile, pc, force, drafts, idx, checksums, licenseCopyrights,
    latestDraft, status, failure, reported, draftWrites, runWrites,
    fileAtStart, prevFailed, checksumsKeys, ledgerFileKeys, sources,
    prevDone, prevCompleted, ledgerWrites, written, hash>>

CurrentDraft == drafts[idx]

LedgerKeys(S) == {PathOf(id) : id \in S \cup {IdRemoved}}

NoStatus == [id \in DOMAIN defs |-> "none"]

Init ==
  /\ \E S \in SUBSET AllIds :
       /\ Cardinality(S) <= MaxDrafts
       /\ defs = [id \in S |-> "h1"]
       /\ \E K \in SUBSET LedgerKeys(S) : ledgerFile \in [K -> Digests]
  /\ pc = "idle"
  /\ force = FALSE
  /\ drafts = <<>>
  /\ idx = 1
  /\ checksums = ledgerFile
  /\ licenseCopyrights = <<>>
  /\ latestDraft = Undefined
  /\ status = NoStatus
  /\ failure = "none"
  /\ reported = {}
  /\ draftWrites = {}
  /\ runWrites = {}
  /\ fileAtStart = ledgerFile
  /\ prevFailed = {}
  /\ checksumsKeys = SortKeySet(DOMAIN ledgerFile)
  /\ ledgerFileKeys = SortKeySet(DOMAIN ledgerFile)
  /\ sources = {}
  /\ prevDone = FALSE
  /\ prevCompleted = {}
  /\ ledgerWrites = 0
  /\ written = [f \in {} |-> {}]
  /\ hash = NoHash

\* ------------------------------------------------------------------ actions

\* A definition file is edited between two runs.
EditDraft ==
  /\ pc = "idle"
  /\ \E id \in DOMAIN defs, h \in Digests :
       /\ h # defs[id]
       /\ defs' = [defs EXCEPT ![id] = h]
       /\ prevFailed' = prevFailed \ {id}
  /\ prevDone' = FALSE
  /\ prevCompleted' =
       {t \in prevCompleted :
          \A id \in prevFailed \cup {t[1]} : defs'[id] = defs[id]}
  /\ UNCHANGED <<reported, ledgerFile, pc, force, drafts, idx, checksums,
                 licenseCopyrights, latestDraft, status, failure,
                 draftWrites, runWrites, fileAtStart, checksumsKeys,
                 ledgerFileKeys, sources, ledgerWrites, written, hash>>

\* Module load: the ledger import, FORCE_REFRESH, draft collection and sort.
StartRun ==
  /\ pc = "idle"
  /\ force' \in BOOLEAN
  /\ checksums' = ledgerFile
  /\ fileAtStart' = ledgerFile
  /\ drafts' = SortDrafts(DOMAIN defs)
  /\ idx' = 1
  /\ pc' = "loop"
  /\ checksumsKeys' = ledgerFileKeys
  /\ UNCHANGED <<reported, defs, ledgerFile, licenseCopyrights, latestDraft,
                 status, failure, draftWrites, runWrites, prevFailed,
                 ledgerFileKeys, sources, prevDone, prevCompleted,
                 ledgerWrites, written, hash>>

\* An uncaught exception at top level ends the run.
Abort(step) ==
  /\ failure' = step
  /\ pc' = "aborted"

\* The load with the copyright record kept only for a draft that is not
\* going to be skipped.
LoadDraftPushAfterSkipTest ==
  /\ pc = "loop"
  /\ idx <= Len(drafts)
  /\ \E ok \in BOOLEAN :
       IF ok
       THEN /\ licenseCopyrights' =
                 IF SkipDraft(checksums, PathOf(CurrentDraft),
                              defs[CurrentDraft], force)
                 THEN licenseCopyrights
                 ELSE Append(licenseCopyrights, CurrentDraft)
            /\ pc' = "check"
            /\ UNCHANGED failure
       ELSE /\ Abort("load")
            /\ UNCHANGED licenseCopyrights
  /\ UNCHANGED <<status, reported, defs, ledgerFile, force, drafts, idx,
                 checksums, latestDraft, draftWrites, runWrites, fileAtStart,
                 prevFailed, checksumsKeys, ledgerFileKeys, sources,
                 prevDone, prevCompleted, ledgerWrites, written, hash>>

\* Lines 54-67: digest of the definition, import, copyright record.
LoadDraft ==
  /\ pc = "loop"
  /\ idx <= Len(drafts)
  /\ \E ok \in BOOLEAN :
       IF ok
       THEN /\ licenseCopyrights' = Append(licenseCopyrights, CurrentDraft)
            /\ pc' = "check"
            /\ UNCHANGED failure
       ELSE /\ Abort("load")
            /\ UNCHANGED licenseCopyrights
  /\ UNCHANGED <<status, reported, defs, ledgerFile, force, drafts, idx,
                 checksums, latestDraft, draftWrites, runWrites, fileAtStart,
                 prevFailed, checksumsKeys, ledgerFileKeys, sources,
                 prevDone, prevCompleted, ledgerWrites, written, hash>>

\* The skip test with a ledger update that is saved to checksums.json at once.
CheckDraftPersisting ==
  /\ pc = "check"
  /\ IF SkipDraft(checksums, PathOf(CurrentDraft), defs[CurrentDraft], force)
     THEN /\ status' = [status EXCEPT ![CurrentDraft] = "skipped"]
          /\ idx' = idx + 1
          /\ pc' = "loop"
          /\ UNCHANGED <<checksums, ledgerFile>>
     ELSE /\ checksums' =
               Assign(checksums, PathOf(CurrentDraft), defs[CurrentDraft])
          /\ ledgerFile' = checksums'
          /\ status' = [status EXCEPT ![CurrentDraft] = "running"]
          /\ pc' = "format"
          /\ UNCHANGED idx
  /\ checksumsKeys' =
       IF SkipDraft(checksums, PathOf(CurrentDraft), defs[CurrentDraft], force)
       THEN checksumsKeys
       ELSE AppendKey(checksumsKeys, PathOf(CurrentDraft))
  /\ ledgerFileKeys' = SortEntries(checksumsKeys')
  /\ UNCHANGED <<reported, defs, force, drafts, licenseCopyrights,
                 latestDraft, failure, draftWrites, runWrites, fileAtStart,
                 prevFailed, sources, prevDone, prevCompleted, ledgerWrites,
                 written, hash>>

\* Lines 69-81: the skip test, and the ledger update of a draft not skipped.
CheckDraft ==
  /\ pc = "check"
  /\ IF SkipDraft(checksums, PathOf(CurrentDraft), defs[CurrentDraft], force)
     THEN /\ status' = [status EXCEPT ![CurrentDraft] = "skipped"]
          /\ idx' = idx + 1
          /\ pc' = "loop"
          /\ UNCHANGED checksums
     ELSE /\ checksums' =
               Assign(checksums, PathOf(CurrentDraft), defs[CurrentDraft])
          /\ status' = [status EXCEPT ![CurrentDraft] = "running"]
          /\ pc' = "format"
          /\ UNCHANGED idx
  /\ checksumsKeys' =
       IF SkipDraft(checksums, PathOf(CurrentDraft), defs[CurrentDraft], force)
       THEN checksumsKeys
       ELSE AppendKey(checksumsKeys, PathOf(CurrentDraft))
  /\ UNCHANGED <<reported, defs, ledgerFile, force, drafts,
                 licenseCopyrights, latestDraft, failure, draftWrites,
                 runWrites, fileAtStart, prevFailed, ledgerFileKeys, sources,
                 prevDone, prevCompleted, ledgerWrites, written, hash>>

\* A pipeline step of the current draft that either throws or goes on to next,
\* writing the given per-draft files when it succeeds.
PipelineStep(step, next, files) ==
  /\ pc = step
  /\ \E ok \in BOOLEAN :
       IF ok
       THEN /\ pc' = next
            /\ draftWrites' = draftWrites \cup {<<f, CurrentDraft>> : f \in files}
            /\ UNCHANGED <<failure, status>>
       ELSE /\ Abort(step)
            /\ status' = [status EXCEPT ![CurrentDraft] = "failed"]
            /\ UNCHANGED draftWrites
  /\ sources' =
       IF pc' = next /\ "ts" \in files
       THEN sources \cup {DraftModule(CurrentDraft)}
       ELSE sources
  /\ UNCHANGED <<reported, defs, ledgerFile, force, drafts, idx, checksums,
                 licenseCopyrights, latestDraft, runWrites, fileAtStart,
                 prevFailed, checksumsKeys, ledgerFileKeys, prevDone,
                 prevCompleted, ledgerWrites, written, hash>>

\* Lines 83-89: formatDefinitionDescriptions and formatMarkdown.
FormatDraft == PipelineStep("format", "emitJson", {})

\* Lines 91-100: the JSON definition file.
EmitJson == PipelineStep("emitJson", "expand", {"json"})

\* Lines 102-106: expandSourcePlaceholders.
ExpandDraft == PipelineStep("expand", "emit", {})

\* Lines 108-121: the generated module and deno fmt.
EmitModule == PipelineStep("emit", "compile", {"ts"})

\* A compiler wrapper that treats diagnostics as warnings.
CompileThrowsOnSkipOnly(diagnostics, emitSkipped) == emitSkipped

\* compileTypeScript throws on any diagnostic and on a skipped emit.
CompileThrows(diagnostics, emitSkipped) == diagnostics > 0 \/ emitSkipped

\* Lines 126-131 and compileTypeScript: program.emit() runs before the
\* diagnostics are inspected.
CompileDraft ==
  /\ pc = "compile"
  /\ \E diagnostics \in 0..1, emitSkipped \in BOOLEAN :
       /\ draftWrites' =
            IF emitSkipped THEN draftWrites
            ELSE draftWrites \cup {<<"js", CurrentDraft>>}
       /\ reported' =
            IF diagnostics > 0 \/ emitSkipped
            THEN reported \cup {CurrentDraft}
            ELSE reported
       /\ IF CompileThrows(diagnostics, emitSkipped)
          THEN /\ Abort("compile")
               /\ status' = [status EXCEPT ![CurrentDraft] = "failed"]
               /\ UNCHANGED idx
          ELSE /\ status' = [status EXCEPT ![CurrentDraft] = "complete"]
               /\ idx' = idx + 1
               /\ pc' = "loop"
               /\ UNCHANGED failure
  /\ UNCHANGED <<defs, ledgerFile, force, drafts, checksums,
                 licenseCopyrights, latestDraft, runWrites, fileAtStart,
                 prevFailed, checksumsKeys, ledgerFileKeys, sources,
                 prevDone, prevCompleted, ledgerWrites, written, hash>>

\* Lines 137-148: checksums.json is written once the loop is over.
WriteLedger ==
  /\ pc = "loop"
  /\ idx > Len(drafts)
  /\ ledgerFile' = checksums
  /\ runWrites' = runWrites \cup {"checksums.json"}
  /\ pc' = "latest"
  /\ ledgerFileKeys' = SortEntries(checksumsKeys)
  /\ ledgerWrites' = ledgerWrites + 1
  /\ UNCHANGED <<reported, defs, force, drafts, idx, checksums,
                 licenseCopyrights, latestDraft, status, failure,
                 draftWrites, fileAtStart, prevFailed, checksumsKeys,
                 sources, prevDone, prevCompleted, written, hash>>

\* Lines 154-160: latestDraft, and the throw when it is undefined.
SelectLatest ==
  /\ pc = "latest"
  /\ latestDraft' = LatestOf(drafts)
  /\ IF latestDraft' = Undefined
     THEN Abort("latest")
     ELSE pc' = "alias" /\ UNCHANGED failure
  /\ UNCHANGED <<reported, defs, ledgerFile, force, drafts, idx, checksums,
                 licenseCopyrights, status, draftWrites, runWrites,
                 fileAtStart, prevFailed, checksumsKeys, ledgerFileKeys,
                 sources, prevDone, prevCompleted, ledgerWrites, written,
                 hash>>

\* A step after the loop that writes one aggregate file.
WriteFile(step, next, file) ==
  /\ pc = step
  /\ runWrites' = runWrites \cup {file}
  /\ pc' = next
  /\ sources' = sources \cup SourceWritten(file, latestDraft)
  /\ written' =
       [f \in DOMAIN written \cup {file} |->
          IF f = file
          THEN FileText(file, drafts, licenseCopyrights, latestDraft)
          ELSE written[f]]
  /\ UNCHANGED <<reported, defs, ledgerFile, force, drafts, idx, checksums,
                 licenseCopyrights, latestDraft, status, failure,
                 draftWrites, fileAtStart, prevFailed, checksumsKeys,
                 ledgerFileKeys, prevDone, prevCompleted, ledgerWrites, hash>>

\* Lines 162-165.
WriteAlias == WriteFile("alias", "readme", "draft_latest.ts")

\* Lines 171-203.
WriteReadme == WriteFile("readme", "license", "README.md")

\* Lines 209-243.
WriteLicense == WriteFile("license", "package", "LICENSE.md")

\* Lines 248-278.
WritePackageJson == WriteFile("package", "version", "package.json")

\* Lines 283-288.
WriteVersion == WriteFile("version", "done", "version.ts")

\* The process exits, normally or with the uncaught error: its memory is
\* gone, the files stay.
ExitRun ==
  /\ pc \in {"done", "aborted"}
  /\ pc' = "idle"
  /\ force' = FALSE
  /\ drafts' = <<>>
  /\ idx' = 1
  /\ checksums' = ledgerFile
  /\ licenseCopyrights' = <<>>
  /\ latestDraft' = Undefined
  /\ status' = NoStatus
  /\ failure' = "none"
  /\ reported' = {}
  /\ draftWrites' = {}
  /\ runWrites' = {}
  /\ fileAtStart' = ledgerFile
  /\ prevFailed' = {id \in DOMAIN defs : status[id] = "failed"}
  /\ checksumsKeys' = ledgerFileKeys
  /\ sources' = {}
  /\ prevDone' = (pc = "done")
  /\ prevCompleted' =
       IF \E id \in DOMAIN defs : status[id] = "failed"
       THEN {<<id, Lookup(fileAtStart, PathOf(id)) # defs[id]>> :
               id \in {d \in DOMAIN defs : status[d] = "complete"}}
       ELSE {}
  /\ ledgerWrites' = 0
  /\ written' = [f \in {} |-> {}]
  /\ UNCHANGED <<defs, ledgerFile, ledgerFileKeys, hash>>

Next ==
  \/ EditDraft
  \/ StartRun
  \/ LoadDraft
  \/ CheckDraft
  \/ FormatDraft
  \/ EmitJson
  \/ ExpandDraft
  \/ EmitModule
  \/ CompileDraft
  \/ WriteLedger
  \/ SelectLatest
  \/ WriteAlias
  \/ WriteReadme
  \/ WriteLicense
  \/ WritePackageJson
  \/ WriteVersion
  \/ ExitRun

Spec == Init /\ [][Next]_vars

\* ------------------------------------------------- fileChecksum on its own

buildVars ==
  <<defs, ledgerFile, pc, force, drafts, idx, checksums, licenseCopyrights,
    latestDraft, status, failure, reported, draftWrites, runWrites,
    fileAtStart, prevFailed, checksumsKeys, ledgerFileKeys, sources,
    prevDone, prevCompleted, ledgerWrites, written>>

\* Two hash outputs handed to fileChecksum's conversion; no build is running.
HexInit ==
  /\ defs = [id \in {} |-> "h1"]
  /\ ledgerFile = [key \in {} |-> "h1"]
  /\ pc = "idle"
  /\ force = FALSE
  /\ drafts = <<>>
  /\ idx = 1
  /\ checksums = ledgerFile
  /\ licenseCopyrights = <<>>
  /\ latestDraft = Undefined
  /\ status = [id \in {} |-> "none"]
  /\ failure = "none"
  /\ reported = {}
  /\ draftWrites = {}
  /\ runWrites = {}
  /\ fileAtStart = ledgerFile
  /\ prevFailed = {}
  /\ checksumsKeys = <<>>
  /\ ledgerFileKeys = <<>>
  /\ sources = {}
  /\ prevDone = FALSE
  /\ prevCompleted = {}
  /\ ledgerWrites = 0
  /\ written = [f \in {} |-> {}]
  /\ \E a \in HashOutputs, b \in HashOutputs :
       hash = [NoHash EXCEPT !.at = "first", !.a = a, !.b = b]

\* checksum.ts lines 15-18 for the first hash output.
EncodeFirst ==
  /\ hash.at = "first"
  /\ hash' = [hash EXCEPT !.at = "second", !.hexA = HashHex(hash.a)]
  /\ UNCHANGED buildVars

\* checksum.ts lines 15-18 for the second hash output.
EncodeSecond ==
  /\ hash.at = "second"
  /\ hash' = [hash EXCEPT !.at = "compare", !.hexB = HashHex(hash.b)]
  /\ UNCHANGED buildVars

\* build.ts line 71: the two digest strings are compared with ===.
CompareDigests ==
  /\ hash.at = "compare"
  /\ hash' = [hash EXCEPT !.at = "compared", !.same = (hash.hexA = hash.hexB)]
  /\ UNCHANGED buildVars

HexNext ==
  \/ EncodeFirst
  \/ EncodeSecond
  \/ CompareDigests

HexSpec == HexInit /\ [][HexNext]_vars

\* ------------------------------------------------ vocabulary of the claims

DraftSet == {drafts[k] : k \in 1..Len(drafts)}

PositionOf(id) == CHOOSE k \in 1..Len(drafts) : drafts[k] = id

InRun == pc # "idle"

RunOver == pc \in {"done", "aborted"}

\* The run entered the pipeline of the draft (it passed the skip test).
Regenerated(id) == status[id] \in {"running", "complete", "failed"}

\* The run took the skip decision for the draft.
Decided(id) == status[id] = "skipped" \/ Regenerated(id)

\* The ledger as persisted when the run started asks for regeneration.
NeedsRegeneration(id) ==
  \/ force
  \/ PathOf(id) \notin DOMAIN fileAtStart
  \/ fileAtStart[PathOf(id)] # defs[id]

\* The digest of the draft is new with respect to the ledger the run loaded.
NewDigest(id) == Lookup(fileAtStart, PathOf(id)) # defs[id]

DraftFiles(id) == {<<f, id>> : f \in {"json", "ts", "js"}}

AggregateFiles ==
  {"draft_latest.ts", "README.md", "LICENSE.md", "package.json", "version.ts"}

\* ------------------------------------------------------------------- C1

C2_LaterDraftsStillComplete ==
  RunOver =>
    \A id \in DraftSet :
      status[id] = "failed" =>
        \A later \in DraftSet :
          (PositionOf(later) > PositionOf(id) /\ NeedsRegeneration(later))
            => status[later] = "complete"

\* ------------------------------------------------------------------- C3

\* C3: a draft that failed partway in the previous run, with its content
\* unchanged, is regenerated again by a run without the force flag.
C3_FailedDraftRegeneratedNextRun ==
  \A id \in DraftSet :
    (id \in prevFailed /\ ~force /\ Decided(id)) => Regenerated(id)

\* ------------------------------------------------------------------- C4

\* C4: a draft is regenerated if and only if the force flag is set, or the
\* persisted ledger has no entry for its path, or that entry differs from
\* the draft's current digest; a draft recorded with digest h by an earlier
\* run is skipped on h without force.
C4_RegenerateIffForcedMissingOrChanged ==
  \A id \in DraftSet :
    Decided(id) => (Regenerated(id) <=> NeedsRegeneration(id))

C4_Witness ==
  \E a, b \in DraftSet :
    /\ a # b
    /\ status[a] = "skipped"
    /\ fileAtStart[PathOf(a)] = "h2"
    /\ status[b] = "complete"
    /\ PathOf(b) \notin DOMAIN fileAtStart

\* ------------------------------------------------------------------- C5

\* C5: within a run a ledger entry is written only for a draft the run
\* regenerates, and every regenerated draft's entry is set to its current
\* digest; entries of skipped drafts and of paths of no discovered draft
\* keep their value, in memory and in checksums.json, and the keys of
\* checksums.json after the run include the keys before it.
C5_EntryUpdatedIffRegenerated ==
  InRun =>
    /\ DOMAIN fileAtStart \subseteq DOMAIN checksums
    /\ DOMAIN fileAtStart \subseteq DOMAIN ledgerFile
    /\ \A key \in DOMAIN checksums :
         Lookup(checksums, key) # Lookup(fileAtStart, key)
           => \E id \in DraftSet : key = PathOf(id) /\ Regenerated(id)
    /\ \A key \in DOMAIN ledgerFile :
         Lookup(ledgerFile, key) # Lookup(fileAtStart, key)
           => \E id \in DraftSet : key = PathOf(id) /\ Regenerated(id)
    /\ \A id \in DraftSet :
         Regenerated(id) => Lookup(checksums, PathOf(id)) = defs[id]

C5_Witness ==
  /\ pc = "done"
  /\ PathOf(IdRemoved) \in DOMAIN fileAtStart
  /\ ledgerFile[PathOf(IdRemoved)] = fileAtStart[PathOf(IdRemoved)]
  /\ \E a, b \in DraftSet :
       /\ status[a] = "skipped"
       /\ ledgerFile[PathOf(a)] = fileAtStart[PathOf(a)]
       /\ status[b] = "complete"
       /\ NewDigest(b)
       /\ ledgerFile[PathOf(b)] = defs[b]

\* ------------------------------------------------------------------- C6

\* Every discovered draft has its current digest in the loaded ledger and
\* the force flag is not set.
NothingChanged ==
  /\ InRun
  /\ DraftSet # {}
  /\ ~force
  /\ \A id \in DraftSet : Lookup(fileAtStart, PathOf(id)) = defs[id]

\* C6 (as stated): when the ledger matches every discovered draft and the
\* force flag is not set, the run processes no draft and writes no file at
\* all: not the ledger file, no per-draft artifact, no other output file.
C6_NothingWritten ==
  NothingChanged =>
    /\ \A id \in DraftSet : ~Regenerated(id)
    /\ draftWrites = {}
    /\ runWrites = {}

\* C6 (amended): in such a run no draft is processed, no per-draft artifact
\* is written and the content of checksums.json stays what it was; the
\* ledger file itself, the "latest" alias, the README and LICENSE files,
\* package.json and version.ts are still written.
C6_NoDraftOutputLedgerContentKept ==
  NothingChanged =>
    /\ \A id \in DraftSet : ~Regenerated(id)
    /\ draftWrites = {}
    /\ ledgerFile = fileAtStart
    /\ pc \in {"latest", "alias", "readme", "license", "package", "version",
               "done"}
         => "checksums.json" \in runWrites
    /\ pc = "done" => runWrites = {"checksums.json"} \cup AggregateFiles

C6_Witness ==
  /\ NothingChanged
  /\ pc = "done"
  /\ drafts = <<Id2019, IdDraft7>>
  /\ \A id \in DraftSet : status[id] = "skipped"

\* ------------------------------------------------------------------- C7

\* C7: the draft chosen as "latest" is the one whose numeric prefix is the
\* greatest among the discovered drafts that have a numeric prefix.
C7_LatestHasGreatestNumericPrefix ==
  (InRun /\ latestDraft # Undefined) =>
    /\ HasNumericPrefix(latestDraft)
    /\ \A id \in DraftSet :
         HasNumericPrefix(id)
           => NumericPrefix(latestDraft) >= NumericPrefix(id)

\* ------------------------------------------------------------------- C8

\* C8: a draft without a numeric prefix is enumerated and goes through the
\* same skip test and pipeline as any other draft, and is never the draft
\* selected as "latest".
C8_NonNumericGeneratedNeverLatest ==
  InRun =>
    /\ latestDraft # Undefined => HasNumericPrefix(latestDraft)
    /\ \A id \in DOMAIN defs :
         ~HasNumericPrefix(id) =>
           /\ id \in DraftSet
           /\ Decided(id) => (Regenerated(id) <=> NeedsRegeneration(id))
           /\ status[id] = "complete" => DraftFiles(id) \subseteq draftWrites
           /\ "checksums.json" \in runWrites
                => status[id] \in {"skipped", "complete"}

C8_Witness ==
  /\ pc = "done"
  /\ drafts = <<Id7, IdDraft7>>
  /\ status[IdDraft7] = "complete"
  /\ latestDraft = Id7

\* ------------------------------------------------------------------- C9

NoNumericDraft == \A id \in DraftSet : ~HasNumericPrefix(id)

\* C9: when no discovered draft has a numeric prefix the run aborts with an
\* error once the loop and the ledger write are over: the alias, README,
\* LICENSE and package metadata are not written.
C9_NoNumericDraftAborts ==
  (InRun /\ NoNumericDraft) =>
    /\ runWrites \cap AggregateFiles = {}
    /\ pc \notin {"alias", "readme", "license", "package", "version", "done"}
    /\ ("checksums.json" \in runWrites /\ pc # "latest")
         => (pc = "aborted" /\ failure = "latest")

C9_Witness ==
  /\ pc = "aborted"
  /\ failure = "latest"
  /\ drafts = <<IdDraft7>>
  /\ status[IdDraft7] = "complete"

\* ------------------------------------------------------------------ C10

\* C10: once the compiler reports a diagnostic, or a skipped emit, for a
\* draft, the run is over with an error: no later draft is loaded or
\* processed, and neither checksums.json nor the alias nor any metadata
\* file is written.
C10_CompilerReportFailsRun ==
  \A id \in reported :
    /\ pc = "aborted"
    /\ failure = "compile"
    /\ status[id] = "failed"
    /\ runWrites = {}
    /\ ledgerFile = fileAtStart
    /\ \A later \in DraftSet :
         PositionOf(later) > PositionOf(id) =>
           /\ status[later] = "none"
           /\ DraftFiles(later) \cap draftWrites = {}
           /\ \A k \in 1..Len(licenseCopyrights) : licenseCopyrights[k] # later

C10_Witness ==
  \E id \in reported, later \in DraftSet :
    /\ PositionOf(later) > PositionOf(id)
    /\ NeedsRegeneration(later)

\* ------------------------------------------------------------------ C11

KeysAscending(keys) ==
  \A j, k \in 1..Len(keys) : j < k => KeyCompare(keys[j], keys[k]) < 0

\* C11: whenever checksums.json has been written it holds every entry of
\* the in-memory ledger, those of the drafts processed in the run and all
\* others, each key once and the keys in ascending order.
C11_LedgerWrittenInFullAndSorted ==
  "checksums.json" \in runWrites =>
    /\ ledgerFile = checksums
    /\ DOMAIN fileAtStart \subseteq DOMAIN ledgerFile
    /\ Len(ledgerFileKeys) = Cardinality(DOMAIN ledgerFile)
    /\ {ledgerFileKeys[k] : k \in 1..Len(ledgerFileKeys)} = DOMAIN ledgerFile
    /\ KeysAscending(ledgerFileKeys)

C11_Witness ==
  /\ "checksums.json" \in runWrites
  /\ ~KeysAscending(checksumsKeys)
  /\ PathOf(IdRemoved) \in DOMAIN ledgerFile
  /\ \E id \in DraftSet : status[id] = "complete" /\ NewDigest(id)

\* ------------------------------------------------------------------ C12

\* C12: every source module the run emits into the output directory, the
\* per-draft modules and the "latest" alias alike, starts with the two
\* marker lines.
C12_EverySourceModuleHasBanner ==
  \A module \in sources :
    /\ Len(module[2]) >= 2
    /\ module[2][1] = Banner[1]
    /\ module[2][2] = Banner[2]

\* ------------------------------------------------------------------ C13

\* A step of the draft's iteration has started in the run.
Begun(id) ==
  \/ \E k \in 1..Len(licenseCopyrights) : licenseCopyrights[k] = id
  \/ status[id] # "none"
  \/ DraftFiles(id) \cap draftWrites # {}

C14_RerunSkipsAllAndKeepsLedger ==
  (prevDone /\ InRun /\ ~force) =>
    /\ \A id \in DraftSet : Decided(id) => status[id] = "skipped"
    /\ draftWrites = {}
    /\ ledgerFile = fileAtStart
    /\ ledgerFileKeys = checksumsKeys
    /\ KeysAscending(ledgerFileKeys)

C14_Witness ==
  /\ prevDone
  /\ ~force
  /\ pc = "done"
  /\ Len(drafts) = MaxDrafts
  /\ \A id \in DraftSet : status[id] = "skipped"
  /\ "checksums.json" \in runWrites

\* ------------------------------------------------------------------ C15

SomeDraftFailed == \E id \in DraftSet : status[id] = "failed"

\* checksums.json is written at most once per run, after the loop, and not at
\* all in a run in which a draft failed; then it keeps no digest of the drafts
\* regenerated before the failing one.
LedgerNotPersistedOnFailure ==
  /\ ledgerWrites <= 1
  /\ ledgerWrites = 1 =>
       /\ idx > Len(drafts)
       /\ \A id \in DraftSet : status[id] \in {"skipped", "complete"}
  /\ SomeDraftFailed =>
       /\ ledgerWrites = 0
       /\ ledgerFile = fileAtStart
       /\ \A id \in DraftSet :
            (status[id] = "complete" /\ NewDigest(id)) =>
              /\ DraftFiles(id) \subseteq draftWrites
              /\ Lookup(ledgerFile, PathOf(id)) # defs[id]

\* C15 (as stated): the ledger file is written at most once, after the loop,
\* only if no draft failed; and every draft regenerated before the failing
\* one is regenerated again by the next run without FORCE_REFRESH.
C15_EarlierDraftsRegeneratedAgain ==
  /\ LedgerNotPersistedOnFailure
  /\ \A t \in prevCompleted :
       (InRun /\ ~force /\ Decided(t[1])) => Regenerated(t[1])

\* C15 (amended): the same, where the drafts regenerated again are those the
\* failed run regenerated because their digest was not in the ledger; a draft
\* a forced run regenerated although its entry matched is skipped next time.
C15_EarlierNewDigestsRegeneratedAgain ==
  /\ LedgerNotPersistedOnFailure
  /\ \A t \in prevCompleted :
       (t[2] /\ InRun /\ ~force /\ Decided(t[1])) => Regenerated(t[1])

C15_Witness ==
  /\ \E t \in prevCompleted : t[2] /\ status[t[1]] = "complete"
  /\ ~force
  /\ SomeDraftFailed
  /\ pc = "aborted"

\* ------------------------------------------------------------------ C16

\* C16: a draft the run skipped is still counted in the README total and
\* named in both README lists, has its copyright line in LICENSE.md and its
\* entry in the export map of package.json, whenever the run writes them.
C16_SkippedDraftInAggregates ==
  \A id \in DraftSet :
    status[id] = "skipped" =>
      /\ "README.md" \in DOMAIN written =>
           /\ written["README.md"].total = Cardinality(DraftSet)
           /\ \E k \in 1..Len(written["README.md"].nodeList) :
                written["README.md"].nodeList[k]
                  = <<"draft-", ReplaceUnderscores(id)>>
           /\ \E k \in 1..Len(written["README.md"].denoList) :
                written["README.md"].denoList[k] = <<"draft_", id, ".ts">>
      /\ "LICENSE.md" \in DOMAIN written =>
           \E k \in 1..Len(written["LICENSE.md"]) :
             written["LICENSE.md"][k] = <<YearOf(id), "draft-", id>>
      /\ "package.json" \in DOMAIN written =>
           /\ ExportKey(id) \in DOMAIN written["package.json"]
           /\ written["package.json"][ExportKey(id)] = <<"./draft_", id, ".js">>

C16_Witness ==
  /\ pc = "done"
  /\ {"README.md", "LICENSE.md", "package.json"} \subseteq DOMAIN written
  /\ \E id, other \in DraftSet :
       status[id] = "skipped" /\ status[other] = "complete"

\* ------------------------------------------------------------------ C17

LowercaseHex(str) ==
  \A k \in 1..Len(str) : \E d \in 1..Len(HexDigits) : str[k] = HexDigits[d]

\* C17: the digest string of a hash output has exactly two characters per
\* byte, each one of 0-9 and a-f, and the digest strings of two hash outputs
\* are equal exactly when the two outputs have the same bytes.
C17_HexDigestTwoCharsPerByteInjective ==
  /\ hash.at \in {"second", "compare", "compared"} =>
       /\ Len(hash.hexA) = 2 * Len(hash.a)
       /\ LowercaseHex(hash.hexA)
  /\ hash.at \in {"compare", "compared"} =>
       /\ Len(hash.hexB) = 2 * Len(hash.b)
       /\ LowercaseHex(hash.hexB)
       /\ (hash.hexA = hash.hexB) <=> (hash.a = hash.b)
  /\ hash.at = "compared" => (hash.same <=> (hash.a = hash.b))

\* Two different outputs whose digits coincide once the padding is left out.
C17_Witness ==
  /\ hash.at = "compared"
  /\ hash.a = <<1, 17>>
  /\ hash.b = <<17, 1>>
  /\ hash.hexA = <<"0", "1", "1", "1">>
  /\ hash.hexB = <<"1", "1", "0", "1">>
  /\ ~hash.same

====
